---- MODULE Spec2Model ----
(***************************************************************************)
(* State-machine model of streamlit_project.py: one run of the script is   *)
(* load -> widgets -> filter -> plot loop -> metrics -> group statistics   *)
(* -> rankings -> shot details; a user interaction re-runs the script.     *)
(* An exception outside plot_shots ends the run in the handler at the end  *)
(* of the script (pc = "error").                                           *)
(* Left out: the figure title, the outcome bar chart and the columns that  *)
(* are only displayed (shot_type, shot_technique, shot_body_part).  The    *)
(* library calls pitch.scatter and ax.annotate may raise for any event.    *)
(*                                                                         *)
(* Python strings are sequences of one-character strings, so that strip,   *)
(* replace and json.loads are computed and not assumed.  A missing CSV     *)
(* cell (pandas NaN) is the one-token sequence <<"NaN">>.  Expected-goal   *)
(* values are integers in thousandths, conversion rates integers in        *)
(* tenths of a percent.                                                    *)
(***************************************************************************)
EXTENDS Integers, Sequences, FiniteSets, TLC

VARIABLES csv, pc, df, team, player, filtered_df, idx, scatter_points,
          annotations, warnings, metrics, team_stats, player_stats,
          rankings, shot_details

vars == <<csv, pc, df, team, player, filtered_df, idx, scatter_points,
          annotations, warnings, metrics, team_stats, player_stats,
          rankings, shot_details>>

-----------------------------------------------------------------------------
(* Bounds of the model *)

MaxRows == 3

MaxLocLen == 5

NumGroups == 7

-----------------------------------------------------------------------------
(* String literals of the program *)

NaN == <<"NaN">>

ShotType == <<"S", "h", "o", "t">>

GoalOutcome == <<"G", "o", "a", "l">>

AllTeams == <<"A", "l", "l", " ", "T", "e", "a", "m", "s">>

AllPlayers == <<"A", "l", "l", " ", "P", "l", "a", "y", "e", "r", "s">>

-----------------------------------------------------------------------------
(* str.strip, str.replace, pd.isna *)

isna(v) == v = NaN

RECURSIVE lstrip(_)
lstrip(s) ==
    IF s # <<>> /\ Head(s) = " " THEN lstrip(Tail(s)) ELSE s

RECURSIVE rstrip(_)
rstrip(s) ==
    IF s # <<>> /\ s[Len(s)] = " " THEN rstrip(SubSeq(s, 1, Len(s) - 1)) ELSE s

strip(s) == rstrip(lstrip(s))

\* Series.str.strip(): a missing value stays missing
str_strip(v) == IF isna(v) THEN v ELSE strip(v)

replace(s, old, new) == [k \in 1..Len(s) |-> IF s[k] = old THEN new ELSE s[k]]

-----------------------------------------------------------------------------
(* json.loads on the alphabet  [ ] , digits quote space *)

JNum(n) == [k |-> "num", n |-> n, s |-> <<>>, a |-> <<>>]

JStr(s) == [k |-> "str", n |-> 0, s |-> s, a |-> <<>>]

JArr(a) == [k |-> "arr", n |-> 0, s |-> <<>>, a |-> a]

Digits == <<"0", "1", "2", "3", "4", "5", "6", "7", "8", "9">>

IsDigit(c) == \E d \in 1..Len(Digits) : Digits[d] = c

DigitVal(c) == (CHOOSE d \in 1..Len(Digits) : Digits[d] = c) - 1

RECURSIVE NumVal(_)
NumVal(s) ==
    IF s = <<>> THEN 0
    ELSE 10 * NumVal(SubSeq(s, 1, Len(s) - 1)) + DigitVal(s[Len(s)])

\* first position >= i that holds no whitespace (Len(s)+1 when none)
RECURSIVE SkipWs(_, _)
SkipWs(s, i) ==
    IF i <= Len(s) /\ s[i] = " " THEN SkipWs(s, i + 1) ELSE i

\* first position >= i that holds no digit
RECURSIVE DigitsEnd(_, _)
DigitsEnd(s, i) ==
    IF i <= Len(s) /\ IsDigit(s[i]) THEN DigitsEnd(s, i + 1) ELSE i

\* position of the closing quote at or after i, 0 when the string never ends
RECURSIVE NextQuote(_, _)
NextQuote(s, i) ==
    IF i > Len(s) THEN 0
    ELSE IF s[i] = "\"" THEN i
    ELSE NextQuote(s, i + 1)

JFail == [ok |-> FALSE, val |-> JNum(0), end |-> 0]

JOk(v, e) == [ok |-> TRUE, val |-> v, end |-> e]

RECURSIVE ParseValue(_, _)
RECURSIVE ParseItems(_, _, _)

\* the decoder's scan_once at position i
ParseValue(s, i) ==
    IF i > Len(s) THEN JFail
    ELSE IF s[i] = "\"" THEN
        LET j == NextQuote(s, i + 1)
        IN  IF j = 0 THEN JFail ELSE JOk(JStr(SubSeq(s, i + 1, j - 1)), j + 1)
    ELSE IF s[i] = "[" THEN
        LET j == SkipWs(s, i + 1)
        IN  IF j <= Len(s) /\ s[j] = "]" THEN JOk(JArr(<<>>), j + 1)
            ELSE ParseItems(s, j, <<>>)
    ELSE IF IsDigit(s[i]) THEN
        LET j == DigitsEnd(s, i)
        IN  JOk(JNum(NumVal(SubSeq(s, i, j - 1))), j)
    ELSE JFail

\* the items of an array, the first of which starts at i
ParseItems(s, i, acc) ==
    LET r == ParseValue(s, i)
    IN  IF ~r.ok THEN JFail
        ELSE LET j == SkipWs(s, r.end)
                 acc2 == Append(acc, r.val)
             IN  IF j > Len(s) THEN JFail
                 ELSE IF s[j] = "]" THEN JOk(JArr(acc2), j + 1)
                 ELSE IF s[j] = "," THEN ParseItems(s, SkipWs(s, j + 1), acc2)
                 ELSE JFail

\* json.loads: one value, whitespace around it, nothing after it
json_loads(s) ==
    LET r == ParseValue(s, SkipWs(s, 1))
    IN  IF r.ok /\ SkipWs(s, r.end) = Len(s) + 1 THEN r ELSE JFail

DefaultLocation == JArr(<<JNum(0), JNum(0)>>)

parse_location(loc_str) ==
    IF isna(loc_str) THEN DefaultLocation
    ELSE LET clean_str == replace(strip(loc_str), "'", "\"")
             r == json_loads(clean_str)
         IN  IF r.ok THEN r.val ELSE DefaultLocation

-----------------------------------------------------------------------------
(* The load step *)

Row(ty, tm, pl, mi, loc, out, xg) ==
    [type |-> ty, team |-> tm, player |-> pl, minute |-> mi, location |-> loc,
     shot_outcome |-> out, shot_statsbomb_xg |-> xg]

\* the variant that keeps every event type
AllEventTypes(raw) == raw

\* df[df['type'] == 'Shot'].copy().reset_index(drop=True)
OnlyShots(raw) == LET IsShot(r) == r.type = ShotType IN SelectSeq(raw, IsShot)

\* df['location'] = df['location'].apply(parse_location)
ApplyParseLocation(d) ==
    [k \in 1..Len(d) |-> [d[k] EXCEPT !.location = parse_location(@)]]

LoadCSV(raw) == ApplyParseLocation(OnlyShots(raw))

-----------------------------------------------------------------------------
(* The filter stage *)

\* a Python string is truthy when it is not empty
Truthy(s) == s # <<>>

\* the variant whose player filter reads df instead of filtered
filter_data_player_on_df(d, t, p) ==
    LET TeamIs(r) == r.team = t
        PlayerIs(r) == r.player = p
    IN  IF Truthy(p) /\ p # AllPlayers THEN SelectSeq(d, PlayerIs)
        ELSE IF Truthy(t) /\ t # AllTeams THEN SelectSeq(d, TeamIs)
        ELSE d

\* the variant that treats the sentinels as names to match
filter_data_no_sentinel(d, t, p) ==
    LET TeamIs(r) == r.team = t
        PlayerIs(r) == r.player = p
        byTeam == IF Truthy(t) THEN SelectSeq(d, TeamIs) ELSE d
    IN  IF Truthy(p) THEN SelectSeq(byTeam, PlayerIs) ELSE byTeam

filter_data(d, t, p) ==
    LET TeamIs(r) == r.team = t
        PlayerIs(r) == r.player = p
        byTeam == IF Truthy(t) /\ t # AllTeams THEN SelectSeq(d, TeamIs) ELSE d
    IN  IF Truthy(p) /\ p # AllPlayers THEN SelectSeq(byTeam, PlayerIs)
        ELSE byTeam

-----------------------------------------------------------------------------
(* The selectors *)

Range(q) == {q[k] : k \in 1..Len(q)}

team_options(d) == {AllTeams} \cup {r.team : r \in Range(d)}

player_options(d, t) ==
    IF Truthy(t) /\ t # AllTeams
    THEN {AllPlayers} \cup {r.player : r \in {x \in Range(d) : x.team = t}}
    ELSE {AllPlayers} \cup {r.player : r \in Range(d)}

-----------------------------------------------------------------------------
(* The renderer: what one iteration of the loop of plot_shots raises *)

\* row['location'][0], row['location'][1] do not raise
IndexOk(loc) ==
    CASE loc.k = "arr" -> Len(loc.a) >= 2
      [] loc.k = "str" -> Len(loc.s) >= 2
      [] OTHER -> FALSE

LocX(loc) == IF loc.k = "arr" THEN loc.a[1] ELSE JStr(<<loc.s[1]>>)

LocY(loc) == IF loc.k = "arr" THEN loc.a[2] ELSE JStr(<<loc.s[2]>>)

AllDigits(s) == s # <<>> /\ \A k \in 1..Len(s) : IsDigit(s[k])

\* float(v) does not raise
FloatOk(v) ==
    CASE v.k = "num" -> TRUE
      [] v.k = "str" -> AllDigits(strip(v.s))
      [] OTHER -> FALSE

\* the data of the row makes lines 58-65 raise before anything is drawn
RenderRaises(row) ==
    \/ ~IndexOk(row.location)
    \/ ~FloatOk(LocX(row.location))
    \/ ~FloatOk(LocY(row.location))

-----------------------------------------------------------------------------
(* Arithmetic of the statistics *)

\* the result of a division by zero
DivByZero == -1

\* num/den rounded to the nearest integer, ties to even
RoundHalfEven(num, den) ==
    LET q == num \div den
        r == num % den
    IN  IF 2 * r < den THEN q
        ELSE IF 2 * r > den THEN q + 1
        ELSE IF q % 2 = 0 THEN q ELSE q + 1

\* g / n * 100 to one decimal, in tenths of a percent
Percent1(g, n) == IF n = 0 THEN DivByZero ELSE RoundHalfEven(1000 * g, n)

\* the unguarded variant of the filtered-set rate
conversion_rate_unguarded(g, n) == Percent1(g, n)

\* (goals / len(filtered_df)) * 100 if len(filtered_df) > 0 else 0
conversion_rate_of(g, n) == IF n > 0 THEN Percent1(g, n) ELSE 0

RECURSIVE SumXg(_)
SumXg(d) == IF d = <<>> THEN 0 ELSE Head(d).shot_statsbomb_xg + SumXg(Tail(d))

\* the variant that compares the outcome untrimmed
CountGoalsUntrimmed(d) ==
    LET IsGoal(r) == r.shot_outcome = GoalOutcome IN Len(SelectSeq(d, IsGoal))

\* (x.str.strip() == 'Goal').sum()
CountGoals(d) ==
    LET IsGoal(r) == str_strip(r.shot_outcome) = GoalOutcome
    IN  Len(SelectSeq(d, IsGoal))

MeanXg(d) == IF d = <<>> THEN DivByZero ELSE RoundHalfEven(SumXg(d), Len(d))

FilteredMetrics(f) ==
    [shots |-> Len(f), goals |-> CountGoals(f), avg_xg |-> MeanXg(f),
     total_xg |-> SumXg(f),
     conversion_rate |-> conversion_rate_of(CountGoals(f), Len(f))]

NoMetrics ==
    [shots |-> 0, goals |-> 0, avg_xg |-> 0, total_xg |-> 0, conversion_rate |-> 0]

-----------------------------------------------------------------------------
(* groupby: the keys in sorted order, one row of statistics per key *)

\* characters in code-point order
Ascii ==
    <<" ", "0", "1", "2", "3", "4", "5", "6", "7", "8", "9", "A", "B", "G",
      "M", "P", "S", "T", "a", "e", "h", "i", "l", "m", "o", "p", "q", "r",
      "s", "t", "y">>

Ord(c) == CHOOSE k \in 1..Len(Ascii) : Ascii[k] = c

RECURSIVE StrLess(_, _)
StrLess(a, b) ==
    IF b = <<>> THEN FALSE
    ELSE IF a = <<>> THEN TRUE
    ELSE IF Head(a) = Head(b) THEN StrLess(Tail(a), Tail(b))
    ELSE Ord(Head(a)) < Ord(Head(b))

\* order of the (player, team) keys; a team key is <<team>>
RECURSIVE KeyLess(_, _)
KeyLess(a, b) ==
    IF b = <<>> THEN FALSE
    ELSE IF a = <<>> THEN TRUE
    ELSE IF Head(a) = Head(b) THEN KeyLess(Tail(a), Tail(b))
    ELSE StrLess(Head(a), Head(b))

RECURSIVE SortKeys(_)
SortKeys(S) ==
    IF S = {} THEN <<>>
    ELSE LET m == CHOOSE x \in S : \A y \in S \ {x} : KeyLess(x, y)
         IN  <<m>> \o SortKeys(S \ {m})

StatsRow(key, rows) ==
    [key |-> key,
     TotalXg |-> SumXg(rows),
     AvgXg |-> MeanXg(rows),
     Goals |-> CountGoals(rows),
     Shots |-> Len(rows),
     ConvRate |-> Percent1(CountGoals(rows), Len(rows))]

\* the group key of a row: its values in the columns grouped by
KeyOf(r, cols) == [j \in 1..Len(cols) |-> r[cols[j]]]

GroupStats(d, cols) ==
    LET keys == SortKeys({KeyOf(r, cols) : r \in Range(d)})
    IN  [k \in 1..Len(keys) |->
            LET InGroup(r) == KeyOf(r, cols) = keys[k]
            IN  StatsRow(keys[k], SelectSeq(d, InGroup))]

TeamStatsOf(d) == GroupStats(d, <<"team">>)

PlayerStatsOf(d) == GroupStats(d, <<"player", "team">>)

-----------------------------------------------------------------------------
(* Rankings: sort_values(..., ascending=False).head() *)

HeadN == 5

MinShots == 3

\* x goes after every element whose key is at least its own
RECURSIVE InsertDesc(_, _)
InsertDesc(x, q) ==
    IF q = <<>> THEN <<x>>
    ELSE IF Head(q).key >= x.key THEN <<Head(q)>> \o InsertDesc(x, Tail(q))
    ELSE <<x>> \o q

RECURSIVE SortKeyedDesc(_)
SortKeyedDesc(q) ==
    IF q = <<>> THEN <<>>
    ELSE InsertDesc(q[Len(q)], SortKeyedDesc(SubSeq(q, 1, Len(q) - 1)))

SortDescBy(rows, col) ==
    LET keyed == [k \in 1..Len(rows) |-> [key |-> rows[k][col], row |-> rows[k]]]
        sorted == SortKeyedDesc(keyed)
    IN  [k \in 1..Len(sorted) |-> sorted[k].row]

head(q) == SubSeq(q, 1, IF Len(q) < HeadN THEN Len(q) ELSE HeadN)

\* the variant without the minimum
min_shots_all(stats) == stats

\* player_stats[player_stats['Shots'] >= 3]
min_shots_players(stats) ==
    LET Enough(r) == r.Shots >= MinShots IN SelectSeq(stats, Enough)

RankingsOf(ts, ps) ==
    [team_total_xg |-> head(SortDescBy(ts, "TotalXg")),
     team_conv |-> head(SortDescBy(ts, "ConvRate")),
     team_goals |-> head(SortDescBy(ts, "Goals")),
     team_avg_xg |-> head(SortDescBy(ts, "AvgXg")),
     player_total_xg |-> head(SortDescBy(ps, "TotalXg")),
     player_conv |-> head(SortDescBy(min_shots_players(ps), "ConvRate")),
     player_goals |-> head(SortDescBy(ps, "Goals")),
     player_avg_xg |-> head(SortDescBy(min_shots_players(ps), "AvgXg"))]

NoRankings ==
    [team_total_xg |-> <<>>, team_conv |-> <<>>, team_goals |-> <<>>,
     team_avg_xg |-> <<>>, player_total_xg |-> <<>>, player_conv |-> <<>>,
     player_goals |-> <<>>, player_avg_xg |-> <<>>]

-----------------------------------------------------------------------------
(* Shot details: a stripped copy of the filtered set, sorted by minute *)

DetailRow(r) ==
    [player |-> str_strip(r.player), team |-> str_strip(r.team),
     minute |-> r.minute, shot_outcome |-> str_strip(r.shot_outcome),
     shot_statsbomb_xg |-> r.shot_statsbomb_xg]

RECURSIVE InsertAsc(_, _)
InsertAsc(x, q) ==
    IF q = <<>> THEN <<x>>
    ELSE IF Head(q).minute <= x.minute THEN <<Head(q)>> \o InsertAsc(x, Tail(q))
    ELSE <<x>> \o q

RECURSIVE SortByMinute(_)
SortByMinute(q) ==
    IF q = <<>> THEN <<>>
    ELSE InsertAsc(q[Len(q)], SortByMinute(SubSeq(q, 1, Len(q) - 1)))

ShotDetailsOf(f) == SortByMinute([k \in 1..Len(f) |-> DetailRow(f[k])])

-----------------------------------------------------------------------------
(* Inputs *)

TeamA == <<"A">>

TeamASpaced == <<" ", "A">>

TeamB == <<"B">>

PlayerP == <<"p">>

PlayerQ == <<"q">>

Miss == <<"M", "i", "s", "s">>

GoalSpaced == <<"G", "o", "a", "l", " ">>

PassType == <<"P", "a", "s", "s">>

ShotTypeSpaced == <<"S", "h", "o", "t", " ">>

LocPair == <<"[", "4", ",", " ", "3", "]">>

LocQuoted == <<"[", "'", "4", "'", ",", "3", "]">>

LocOne == <<"[", "4", "]">>

LocOpen == <<"[", "4", ",", " ", "3">>

\* the rows a CSV of the model is made of
RowKinds ==
    { Row(ShotType, TeamA, PlayerP, 10, LocPair, GoalOutcome, 400),
      Row(ShotType, TeamA, PlayerQ, 5, LocQuoted, Miss, 100),
      Row(ShotType, TeamASpaced, PlayerP, 20, LocOne, GoalSpaced, 400),
      Row(ShotType, TeamB, PlayerP, 7, LocOpen, Miss, 100),
      Row(PassType, TeamA, PlayerP, 3, NaN, NaN, 0),
      Row(ShotTypeSpaced, TeamB, PlayerQ, 8, NaN, GoalOutcome, 400) }

SeqsUpTo(S, n) == UNION {[1..m -> S] : m \in 0..n}

CsvFiles == SeqsUpTo(RowKinds, MaxRows)

LocAlphabet == {"[", "]", ",", "4", "'", "\"", " "}

LocStrings == {NaN} \cup SeqsUpTo(LocAlphabet, MaxLocLen)

\* the (player, team) of group g: every player shoots for both teams
GroupPlayer(g) == <<"p", Digits[((g + 1) \div 2) + 1]>>

GroupTeam(g) == IF g % 2 = 1 THEN TeamA ELSE TeamB

\* shots and goals of one group
Profiles == {<<MinShots - 1, MinShots - 1>>, <<MinShots, 0>>, <<MinShots, 1>>}

GroupRows(g, prof) ==
    [k \in 1..prof[1] |->
        IF k <= prof[2]
        THEN Row(ShotType, GroupTeam(g), GroupPlayer(g), g, LocPair, GoalOutcome, 400)
        ELSE Row(ShotType, GroupTeam(g), GroupPlayer(g), g, LocPair, Miss, 100)]

RECURSIVE GroupsCsv(_, _)
GroupsCsv(profs, g) ==
    IF g = 0 THEN <<>> ELSE GroupsCsv(profs, g - 1) \o GroupRows(g, profs[g])

-----------------------------------------------------------------------------
(* The script *)

Fresh ==
    /\ df = <<>>
    /\ filtered_df = <<>>
    /\ idx = 1
    /\ scatter_points = <<>>
    /\ annotations = <<>>
    /\ warnings = <<>>
    /\ metrics = NoMetrics
    /\ team_stats = <<>>
    /\ player_stats = <<>>
    /\ rankings = NoRankings
    /\ shot_details = <<>>

Init ==
    /\ csv \in CsvFiles
    /\ pc = "load"
    /\ team = AllTeams
    /\ player = AllPlayers
    /\ Fresh

\* read_csv, the type filter, parse_location
Load ==
    /\ pc = "load"
    /\ df' = LoadCSV(csv)
    /\ pc' = "widgets"
    /\ UNCHANGED <<csv, team, player, filtered_df, idx, scatter_points,
                   annotations, warnings, metrics, team_stats, player_stats,
                   rankings, shot_details>>

\* the two select boxes
Widgets ==
    /\ pc = "widgets"
    /\ \E t \in team_options(df) :
         \E p \in player_options(df, t) :
            /\ team' = t
            /\ player' = p
    /\ pc' = "filter"
    /\ UNCHANGED <<csv, df, filtered_df, idx, scatter_points, annotations,
                   warnings, metrics, team_stats, player_stats, rankings,
                   shot_details>>

Filter ==
    /\ pc = "filter"
    /\ filtered_df' = filter_data(df, team, player)
    /\ pc' = "plot"
    /\ UNCHANGED <<csv, df, team, player, idx, scatter_points, annotations,
                   warnings, metrics, team_stats, player_stats, rankings,
                   shot_details>>

\* one iteration of the loop that reaches the two appends
PlotShotOk ==
    /\ pc = "plot"
    /\ idx <= Len(filtered_df)
    /\ ~RenderRaises(filtered_df[idx])
    /\ scatter_points' = Append(scatter_points, idx)
    /\ annotations' = Append(annotations, idx)
    /\ idx' = idx + 1
    /\ UNCHANGED <<csv, pc, df, team, player, filtered_df, warnings, metrics,
                   team_stats, player_stats, rankings, shot_details>>

\* the variant whose handler leaves the loop
PlotShotRaiseBreak ==
    /\ pc = "plot"
    /\ idx <= Len(filtered_df)
    /\ warnings' = Append(warnings, idx)
    /\ pc' = "metrics"
    /\ UNCHANGED <<csv, df, team, player, filtered_df, idx, scatter_points,
                   annotations, metrics, team_stats, player_stats, rankings,
                   shot_details>>

\* one iteration that raises: the data of the row, or scatter or annotate
PlotShotRaise ==
    /\ pc = "plot"
    /\ idx <= Len(filtered_df)
    /\ warnings' = Append(warnings, idx)
    /\ idx' = idx + 1
    /\ UNCHANGED <<csv, pc, df, team, player, filtered_df, scatter_points,
                   annotations, metrics, team_stats, player_stats, rankings,
                   shot_details>>

PlotReturn ==
    /\ pc = "plot"
    /\ idx > Len(filtered_df)
    /\ pc' = "metrics"
    /\ UNCHANGED <<csv, df, team, player, filtered_df, idx, scatter_points,
                   annotations, warnings, metrics, team_stats, player_stats,
                   rankings, shot_details>>

\* read_csv types a column without any text as numbers, and .str raises on it
StrAccessorOk(raw) ==
    raw = <<>> \/ \E k \in 1..Len(raw) : ~isna(raw[k].shot_outcome)

Metrics ==
    /\ pc = "metrics"
    /\ StrAccessorOk(csv)
    /\ metrics' = FilteredMetrics(filtered_df)
    /\ pc' = "stats"
    /\ UNCHANGED <<csv, df, team, player, filtered_df, idx, scatter_points,
                   annotations, warnings, team_stats, player_stats, rankings,
                   shot_details>>

\* filtered_df['shot_outcome'].str raises: the handler at the end of the script
MetricsRaise ==
    /\ pc = "metrics"
    /\ ~StrAccessorOk(csv)
    /\ pc' = "error"
    /\ UNCHANGED <<csv, df, team, player, filtered_df, idx, scatter_points,
                   annotations, warnings, metrics, team_stats, player_stats,
                   rankings, shot_details>>

Stats ==
    /\ pc = "stats"
    /\ team_stats' = TeamStatsOf(df)
    /\ player_stats' = PlayerStatsOf(df)
    /\ pc' = "rank"
    /\ UNCHANGED <<csv, df, team, player, filtered_df, idx, scatter_points,
                   annotations, warnings, metrics, rankings, shot_details>>

Rankings ==
    /\ pc = "rank"
    /\ rankings' = RankingsOf(team_stats, player_stats)
    /\ pc' = "details"
    /\ UNCHANGED <<csv, df, team, player, filtered_df, idx, scatter_points,
                   annotations, warnings, metrics, team_stats, player_stats,
                   shot_details>>

\* the variant that strips the columns of df itself
ShotDetailsInPlace ==
    /\ pc = "details"
    /\ shot_details' = ShotDetailsOf(filtered_df)
    /\ df' = [k \in 1..Len(df) |->
                [df[k] EXCEPT !.team = str_strip(@), !.player = str_strip(@),
                              !.shot_outcome = str_strip(@)]]
    /\ pc' = "done"
    /\ UNCHANGED <<csv, team, player, filtered_df, idx, scatter_points,
                   annotations, warnings, metrics, team_stats, player_stats,
                   rankings>>

ShotDetails ==
    /\ pc = "details"
    /\ shot_details' = ShotDetailsOf(filtered_df)
    /\ pc' = "done"
    /\ UNCHANGED <<csv, df, team, player, filtered_df, idx, scatter_points,
                   annotations, warnings, metrics, team_stats, player_stats,
                   rankings>>

\* a change of a selector runs the script again, top to bottom
Rerun ==
    /\ pc \in {"done", "error"}
    /\ pc' = "load"
    /\ df' = <<>>
    /\ filtered_df' = <<>>
    /\ idx' = 1
    /\ scatter_points' = <<>>
    /\ annotations' = <<>>
    /\ warnings' = <<>>
    /\ metrics' = NoMetrics
    /\ team_stats' = <<>>
    /\ player_stats' = <<>>
    /\ rankings' = NoRankings
    /\ shot_details' = <<>>
    /\ UNCHANGED <<csv, team, player>>

Next ==
    \/ Load
    \/ Widgets
    \/ Filter
    \/ PlotShotOk
    \/ PlotShotRaise
    \/ PlotReturn
    \/ Metrics
    \/ MetricsRaise
    \/ Stats
    \/ Rankings
    \/ ShotDetails
    \/ Rerun

Spec == Init /\ [][Next]_vars

\* parse_location alone: every location string up to MaxLocLen, loaded
InitParse ==
    /\ csv \in {<<Row(ShotType, TeamA, PlayerP, 1, s, GoalOutcome, 400)>> :
                    s \in LocStrings}
    /\ pc = "load"
    /\ team = AllTeams
    /\ player = AllPlayers
    /\ Fresh

NextParse == Load

SpecParse == InitParse /\ [][NextParse]_vars

\* the aggregator alone: NumGroups (player, team) groups, from the state the
\* script is in when it reaches the group statistics with nothing selected
InitRank ==
    /\ \E profs \in [1..NumGroups -> Profiles] : csv = GroupsCsv(profs, NumGroups)
    /\ pc = "stats"
    /\ team = AllTeams
    /\ player = AllPlayers
    /\ df = LoadCSV(csv)
    /\ filtered_df = filter_data(df, team, player)
    /\ idx = Len(filtered_df) + 1
    /\ scatter_points = [k \in 1..Len(filtered_df) |-> k]
    /\ annotations = scatter_points
    /\ warnings = <<>>
    /\ metrics = FilteredMetrics(filtered_df)
    /\ team_stats = <<>>
    /\ player_stats = <<>>
    /\ rankings = NoRankings
    /\ shot_details = <<>>

NextRank ==
    \/ Stats
    \/ Rankings

SpecRank == InitRank /\ [][NextRank]_vars

-----------------------------------------------------------------------------
(* Properties *)

Loaded == pc # "load"

AfterFilter ==
    pc \in {"plot", "metrics", "stats", "rank", "details", "done", "error"}

AfterPlot == pc \in {"metrics", "stats", "rank", "details", "done", "error"}

AfterMetrics == pc \in {"stats", "rank", "details", "done"}

AfterStats == pc \in {"rank", "details", "done"}

AfterRank == pc \in {"details", "done"}

NoTeam == {<<>>, AllTeams}

NoPlayer == {<<>>, AllPlayers}

TeamNames == {r.team : r \in RowKinds}

PlayerNames == {r.player : r \in RowKinds}

Abs(n) == IF n < 0 THEN -n ELSE n

\* C1: filtering by team then by player, by player then by team, and by both
\* at once give the same events; for a team name and a player name these are
\* exactly the events of that team and that player.
FilterCommutes ==
    Loaded =>
        \A t \in TeamNames \cup NoTeam : \A p \in PlayerNames \cup NoPlayer :
            LET teamThenPlayer == filter_data(filter_data(df, t, <<>>), <<>>, p)
                playerThenTeam == filter_data(filter_data(df, <<>>, p), t, <<>>)
                Both(r) == r.team = t /\ r.player = p
            IN  /\ teamThenPlayer = playerThenTeam
                /\ teamThenPlayer = filter_data(df, t, p)
                /\ (t \in TeamNames /\ p \in PlayerNames)
                       => filter_data(df, t, p) = SelectSeq(df, Both)

\* a team and a player are selected and each of the two narrows the result
FilterBothNarrow ==
    /\ pc = "plot"
    /\ team \in TeamNames
    /\ player \in PlayerNames
    /\ filtered_df # <<>>
    /\ Len(filtered_df) < Len(filter_data(df, team, <<>>))
    /\ Len(filtered_df) < Len(filter_data(df, <<>>, player))

\* C2: with no team and no player (empty or the sentinel) filter_data returns
\* the loaded set unchanged.
FilterIdentity ==
    Loaded =>
        /\ \A t \in NoTeam : \A p \in NoPlayer : filter_data(df, t, p) = df
        /\ (AfterFilter /\ team \in NoTeam /\ player \in NoPlayer)
               => filtered_df = df

\* nothing is selected and the loaded set holds events of two teams
FilterNothingSelected ==
    /\ pc = "plot"
    /\ team = AllTeams
    /\ player = AllPlayers
    /\ filtered_df = df
    /\ \E j \in 1..Len(df) : \E k \in 1..Len(df) : df[j].team # df[k].team

ShotIndices == {k \in 1..Len(csv) : csv[k].type = ShotType}

NoLocation(r) == [r EXCEPT !.location = <<>>]

\* C3: the loaded set is the rows of the file whose type is "Shot", each of
\* them and in the order of the file, and no other row; the filtered set
\* holds only such rows.
OnlyShotsLoaded ==
    Loaded =>
        /\ Len(df) = Cardinality(ShotIndices)
        /\ \A k \in 1..Len(df) : df[k].type = ShotType
        /\ \A j \in ShotIndices :
               LET rank == Cardinality({i \in ShotIndices : i <= j})
               IN  NoLocation(df[rank]) = NoLocation(csv[j])
        /\ \A k \in 1..Len(filtered_df) : filtered_df[k].type = ShotType
        /\ AfterStats =>
               \A k \in 1..Len(team_stats) : team_stats[k].Shots <= Len(df)

\* the file holds a shot and an event of another type, and the script is past
\* the filter
NonShotDropped ==
    /\ pc = "plot"
    /\ df # <<>>
    /\ filtered_df # <<>>
    /\ Len(df) < Len(csv)

IsNumberPair(v) ==
    /\ v.k = "arr"
    /\ Len(v.a) = 2
    /\ v.a[1].k = "num"
    /\ v.a[2].k = "num"

\* digits, with whitespace around them
IsNumberText(s) == AllDigits(strip(s))

\* [ number , number ] with whitespace around the string
WellFormedPair(loc) ==
    /\ ~isna(loc)
    /\ LET s == strip(loc)
           commas == {k \in 1..Len(s) : s[k] = ","}
       IN  /\ Len(s) >= 5
           /\ s[1] = "["
           /\ s[Len(s)] = "]"
           /\ Cardinality(commas) = 1
           /\ \A c \in commas :
                  /\ IsNumberText(SubSeq(s, 2, c - 1))
                  /\ IsNumberText(SubSeq(s, c + 1, Len(s) - 1))

\* C4: a location that is missing or is not the text of a pair of numbers
\* loads as (0,0), and every loaded location is a pair of numbers.
MalformedLocationIsOrigin ==
    Loaded =>
        \A k \in 1..Len(df) :
            /\ ~WellFormedPair(OnlyShots(csv)[k].location)
                   => df[k].location = DefaultLocation
            /\ IsNumberPair(df[k].location)

\* C5: the rate of an empty filtered set is 0, and no rate, of the filtered
\* set or of a group, comes from a division by zero: every group holds a shot.
ZeroShotsRateIsZero ==
    /\ AfterMetrics =>
           /\ metrics.conversion_rate # DivByZero
           /\ Len(filtered_df) = 0 => metrics.conversion_rate = 0
    /\ AfterStats =>
           /\ \A k \in 1..Len(team_stats) :
                  team_stats[k].Shots >= 1 /\ team_stats[k].ConvRate # DivByZero
           /\ \A k \in 1..Len(player_stats) :
                  player_stats[k].Shots >= 1 /\ player_stats[k].ConvRate # DivByZero

\* the file holds rows, none of them a shot: the filtered set is empty
EmptyFilteredSetRate ==
    /\ pc = "stats"
    /\ csv # <<>>
    /\ Len(filtered_df) = 0
    /\ metrics.conversion_rate = 0

TeamsLoaded == {df[k].team : k \in 1..Len(df)}

ShotsOfTeam(t) == Cardinality({k \in 1..Len(df) : df[k].team = t})

GoalsOfTeam(t) ==
    Cardinality({k \in 1..Len(df) :
                    df[k].team = t /\ strip(df[k].shot_outcome) = GoalOutcome})

TeamRows(t) == {k \in 1..Len(team_stats) : team_stats[k].key = <<t>>}

TeamCounts(row, t) ==
    /\ row.Shots = ShotsOfTeam(t)
    /\ row.Goals = GoalsOfTeam(t)
    /\ row.Goals <= row.Shots
    /\ row.ConvRate >= 0
    /\ row.ConvRate <= 1000

\* C6 as stated: the rate of every team is exactly Goals / Shots x 100.
TeamStatsExactRate ==
    AfterStats =>
        \A t \in TeamsLoaded :
            /\ Cardinality(TeamRows(t)) = 1
            /\ \A k \in TeamRows(t) :
                   /\ TeamCounts(team_stats[k], t)
                   /\ team_stats[k].ConvRate * team_stats[k].Shots
                          = 1000 * team_stats[k].Goals

\* C6, amended: every team of the loaded set has one row, with the number of
\* its events as Shots, the number of those whose trimmed outcome is "Goal" as
\* Goals, and Goals / Shots x 100 rounded to one decimal as the rate (within
\* 0.05 of the quotient, between 0 and 100).
TeamStatsRoundedRate ==
    AfterStats =>
        \A t \in TeamsLoaded :
            /\ Cardinality(TeamRows(t)) = 1
            /\ \A k \in TeamRows(t) :
                   /\ TeamCounts(team_stats[k], t)
                   /\ 2 * Abs(team_stats[k].ConvRate * team_stats[k].Shots
                                  - 1000 * team_stats[k].Goals)
                          <= team_stats[k].Shots
                   /\ (team_stats[k].Shots = 2 /\ team_stats[k].Goals = 1)
                          => team_stats[k].ConvRate = 500

\* a team with three shots and one goal: the rate 33.3 is a rounded one
TeamRateRounded ==
    /\ pc = "rank"
    /\ \E k \in 1..Len(team_stats) :
           /\ team_stats[k].Shots = 3
           /\ team_stats[k].Goals = 1
           /\ team_stats[k].ConvRate = 333

ShotsOfPlayer(p) == Cardinality({k \in 1..Len(df) : df[k].player = p})

ShotsOfGroup(key) ==
    Cardinality({k \in 1..Len(df) : <<df[k].player, df[k].team>> = key})

RankingOk(rk, col) ==
    /\ Len(rk) <= HeadN
    /\ \A k \in 1..Len(rk) :
           /\ ShotsOfPlayer(rk[k].key[1]) >= MinShots
           /\ ShotsOfGroup(rk[k].key) >= MinShots
    /\ \A k \in 1..(Len(rk) - 1) : rk[k][col] >= rk[k + 1][col]

\* C7: the player rankings by conversion rate and by average xG hold at most
\* 5 rows, in descending order of the key, none of a player with fewer than
\* 3 shots in the loaded set.
PlayerRankingMinShots ==
    AfterRank =>
        /\ RankingOk(rankings.player_conv, "ConvRate")
        /\ RankingOk(rankings.player_avg_xg, "AvgXg")

\* more than 5 eligible groups, and a group of too few shots with the best
\* rate of all: the ranking is cut to 5 and leaves that group out
RankingCutAndFiltered ==
    /\ pc = "details"
    /\ Len(rankings.player_conv) = HeadN
    /\ Len(min_shots_players(player_stats)) > HeadN
    /\ \E k \in 1..Len(player_stats) :
           /\ player_stats[k].Shots < MinShots
           /\ player_stats[k].ConvRate > rankings.player_conv[1].ConvRate

LoadedValuesTrimmed ==
    Loaded =>
        \A k \in 1..Len(df) :
            /\ df[k].team = str_strip(df[k].team)
            /\ df[k].player = str_strip(df[k].player)
            /\ df[k].shot_outcome = str_strip(df[k].shot_outcome)

DisplayedFromLoadedSet ==
    /\ Loaded => df = LoadCSV(csv)
    /\ AfterFilter => filtered_df = filter_data(LoadCSV(csv), team, player)
    /\ AfterMetrics => metrics = FilteredMetrics(filter_data(LoadCSV(csv), team, player))
    /\ AfterStats =>
           /\ team_stats = TeamStatsOf(LoadCSV(csv))
           /\ player_stats = PlayerStatsOf(LoadCSV(csv))
    /\ pc = "done" =>
           shot_details = ShotDetailsOf(filter_data(LoadCSV(csv), team, player))

\* C10: once loaded, the event set is changed by no step of a run (filter,
\* plot, metrics, statistics, rankings, shot details), and what is displayed
\* is computed from the loaded file and the current selection alone.
LoadedSetReadOnly ==
    /\ []DisplayedFromLoadedSet
    /\ [][pc \notin {"load", "done", "error"} => df' = df]_vars

\* the shot details of a selected team were stripped of whitespace that the
\* loaded set still carries
DetailsStrippedCopy ==
    /\ pc = "done"
    /\ team = TeamASpaced
    /\ shot_details # <<>>
    /\ \A k \in 1..Len(shot_details) : shot_details[k].team = TeamA
    /\ \E k \in 1..Len(df) : df[k].team = TeamASpaced

====
